---- MODULE Spec2Model ----
(***************************************************************************)
(* LawLord: the case-opinion store (backend/db/schema.sql) and the intake  *)
(* chat widget (frontend/src/components/ChatWidget.tsx).                    *)
(*                                                                         *)
(* The database part models the tables case_opinions and case_embeddings,  *)
(* their constraints, the SERIAL sequences and the search-vector trigger,  *)
(* with PostgreSQL's statement semantics: column defaults first, then the  *)
(* BEFORE ROW trigger, then NOT NULL, then the unique indexes, then the    *)
(* foreign key; a statement that raises leaves the tables as they were but *)
(* keeps the sequence values it consumed.                                  *)
(***************************************************************************)
EXTENDS Integers, Sequences, FiniteSets, TLC

VARIABLES
    case_opinions,          \* set of rows of table case_opinions
    case_opinions_id_seq,   \* last value of the sequence behind case_opinions.id
    case_embeddings,        \* set of rows of table case_embeddings
    case_embeddings_id_seq, \* last value of the sequence behind case_embeddings.id
    ever_ids,               \* history: every id a stored opinion has ever had
    last,                   \* the last statement and its outcome
    messages,               \* ChatWidget state: the roles of the messages
    input,                  \* ChatWidget state: the input box's text
    isLoading,              \* ChatWidget state
    sessionId,              \* ChatWidget state
    caseType,               \* ChatWidget state
    readyForReport,         \* ChatWidget state
    report,                 \* ChatWidget state: whether a report is held
    rendered,               \* the state values the last render's closures hold
    startFetch,             \* the POST /start request: "pending" or "settled"
    messageFetches,         \* the POST /message requests not yet settled
    reportFetches,          \* the POST /report requests not yet settled
    lastSend                \* what the last call of sendMessage did

dbVars == <<case_opinions, case_opinions_id_seq, case_embeddings,
            case_embeddings_id_seq, ever_ids, last>>

chatVars == <<messages, input, isLoading, sessionId, caseType,
              readyForReport, report, rendered, startFetch, messageFetches,
              reportFetches, lastSend>>

vars == <<dbVars, chatVars>>

--------------------------------------------------------------------------
(* Bounds of the model. *)

MaxId == 2

MaxEmbeddingId == 3

MaxChunkIndex == 0

MaxSetColumns == 1

MaxIndexed == 1

MaxRanked == 2

MaxMessages == 5

--------------------------------------------------------------------------
(* SQL values. *)

NULL == "<NULL>"

\* SQLSTATE codes a statement can end with.
OK == "00000"
NOT_NULL_VIOLATION == "23502"
UNIQUE_VIOLATION == "23505"
FOREIGN_KEY_VIOLATION == "23503"
DATA_EXCEPTION == "22000"

\* A tsvector: NULL, or a set of (lexeme, position, weight) entries.
TsNull == [isnull |-> TRUE, entries |-> {}]

Ts(entries) == [isnull |-> FALSE, entries |-> entries]

COALESCE(v, d) == IF v = NULL THEN d ELSE v

--------------------------------------------------------------------------
(* Text search: to_tsvector('english', ...), setweight and ||.             *)

\* The words of the sample texts, in order.
TextWords(text) ==
    CASE text = "" -> <<>>
      [] text = "the DWI tests" -> <<"the", "DWI", "tests">>
      [] text = "State v. Smith" -> <<"State", "v", "Smith">>
      [] OTHER -> <<text>>

\* The english configuration: lower-casing and stemming of one word.
Lexize(word) ==
    CASE word = "DWI" -> "dwi"
      [] word = "tests" -> "test"
      [] word = "State" -> "state"
      [] word = "Smith" -> "smith"
      [] OTHER -> word

\* english stop words are dropped, and still count as positions.
StopWords == {"the"}

to_tsvector(text) ==
    IF text = NULL THEN TsNull
    ELSE LET w == TextWords(text)
         IN Ts({[lexeme |-> Lexize(w[i]), pos |-> i, weight |-> "D"] :
                    i \in {j \in DOMAIN w : w[j] \notin StopWords}})

setweight(v, weight) ==
    IF v.isnull THEN TsNull
    ELSE Ts({[e EXCEPT !.weight = weight] : e \in v.entries})

MaxPos(v) ==
    IF v.entries = {} THEN 0
    ELSE CHOOSE p \in {e.pos : e \in v.entries} :
             \A e \in v.entries : e.pos <= p

\* a || b: the positions of b are shifted past the last position of a.
TsConcat(a, b) ==
    IF a.isnull \/ b.isnull THEN TsNull
    ELSE Ts(a.entries \cup
            {[e EXCEPT !.pos = e.pos + MaxPos(a)] : e \in b.entries})

--------------------------------------------------------------------------
(* The trigger function: swapped weights and a missing COALESCE are the    *)
(* two slips it is checked against.                                        *)

update_opinion_search_vector_swapped(new) ==
    [new EXCEPT !.search_vector =
        TsConcat(TsConcat(
            setweight(to_tsvector(COALESCE(new.case_name, "")), "C"),
            setweight(to_tsvector(COALESCE(new.summary, "")), "B")),
            setweight(to_tsvector(COALESCE(new.opinion_text, "")), "A"))]

update_opinion_search_vector_nocoalesce(new) ==
    [new EXCEPT !.search_vector =
        TsConcat(TsConcat(
            setweight(to_tsvector(new.case_name), "A"),
            setweight(to_tsvector(new.summary), "B")),
            setweight(to_tsvector(new.opinion_text), "C"))]

update_opinion_search_vector(new) ==
    [new EXCEPT !.search_vector =
        TsConcat(TsConcat(
            setweight(to_tsvector(COALESCE(new.case_name, "")), "A"),
            setweight(to_tsvector(COALESCE(new.summary, "")), "B")),
            setweight(to_tsvector(COALESCE(new.opinion_text, "")), "C"))]

\* BEFORE INSERT OR UPDATE OF case_name, summary, opinion_text: on UPDATE the
\* trigger fires only when the statement's SET list names one of the three.
TriggerColumns == {"case_name", "summary", "opinion_text"}

TriggerFires(event, columns) ==
    event = "INSERT" \/ columns \cap TriggerColumns # {}

trg_opinion_search_vector(event, columns, new) ==
    IF TriggerFires(event, columns)
    THEN update_opinion_search_vector(new)
    ELSE new

--------------------------------------------------------------------------
(* Table case_opinions.                                                    *)

OpinionIds == {o.id : o \in case_opinions}

OpinionById(id) == CHOOSE o \in case_opinions : o.id = id

\* nextval as "largest stored id plus one": the slip SERIAL is checked against.
nextval_opinions_maxplusone ==
    IF case_opinions = {} THEN 1
    ELSE 1 + CHOOSE m \in OpinionIds : \A i \in OpinionIds : i <= m

\* id SERIAL: DEFAULT nextval('case_opinions_id_seq').
nextval_opinions == case_opinions_id_seq + 1

\* NOT NULL checked on a subset of the columns only.
OpinionNotNullColumn_sourceonly(row) ==
    IF row.source = NULL THEN "source" ELSE NULL

\* The first NOT NULL column of the row that is NULL, or NULL when none is.
OpinionNotNullColumn(row) ==
    CASE row.source = NULL -> "source"
      [] row.case_name = NULL -> "case_name"
      [] row.court = NULL -> "court"
      [] OTHER -> NULL

\* source_id VARCHAR(200) UNIQUE: another row holds the same non-NULL
\* source_id. (idx_opinions_source on (source, source_id) is not UNIQUE.)
OpinionUniqueViolation(row) ==
    /\ row.source_id # NULL
    /\ \E o \in case_opinions : o.id # row.id /\ o.source_id = row.source_id

\* The record of a statement: what it was, the opinion (id), identity pair
\* or chunk key it named, whether the trigger fired, how it ended and the
\* rows it stored (for a DELETE: the chunks the cascade removed).
NoStatement ==
    [op |-> "none", sqlstate |-> OK, constraint |-> NULL, id |-> 0,
     source |-> NULL, source_id |-> NULL, fired |-> FALSE,
     model |-> NULL, chunk_index |-> 0, embedding |-> 0, rows |-> 0]

\* INSERT INTO case_opinions (source, source_id, case_name, court, summary,
\* opinion_text, search_vector) VALUES (...): id takes its default.
InsertOpinion(values) ==
    /\ case_opinions_id_seq < MaxId
    /\ LET id == nextval_opinions
           new == trg_opinion_search_vector("INSERT", DOMAIN values,
                      [id |-> id, source |-> values.source,
                       source_id |-> values.source_id,
                       case_name |-> values.case_name,
                       court |-> values.court,
                       summary |-> values.summary,
                       opinion_text |-> values.opinion_text,
                       search_vector |-> values.search_vector])
           stmt == [NoStatement EXCEPT !.op = "INSERT case_opinions",
                       !.id = id, !.source = values.source,
                       !.source_id = values.source_id, !.fired = TRUE]
       IN /\ case_opinions_id_seq' = id
          /\ IF OpinionNotNullColumn(new) # NULL
             THEN /\ last' = [stmt EXCEPT !.sqlstate = NOT_NULL_VIOLATION,
                                 !.constraint = OpinionNotNullColumn(new)]
                  /\ UNCHANGED <<case_opinions, ever_ids>>
             ELSE IF OpinionUniqueViolation(new)
             THEN /\ last' = [stmt EXCEPT !.sqlstate = UNIQUE_VIOLATION,
                                 !.constraint = "case_opinions_source_id_key"]
                  /\ UNCHANGED <<case_opinions, ever_ids>>
             ELSE /\ case_opinions' = case_opinions \cup {new}
                  /\ ever_ids' = ever_ids \cup {new.id}
                  /\ last' = [stmt EXCEPT !.rows = 1]
    /\ UNCHANGED <<case_embeddings, case_embeddings_id_seq>>

\* The row with the SET list applied.
ApplySet(row, set) ==
    [c \in DOMAIN row |-> IF c \in DOMAIN set THEN set[c] ELSE row[c]]

\* UPDATE case_opinions SET <set> WHERE id = <id>.
UpdateOpinion(id, set) ==
    /\ id \in OpinionIds
    /\ LET old == OpinionById(id)
           new == trg_opinion_search_vector("UPDATE", DOMAIN set,
                                            ApplySet(old, set))
           stmt == [NoStatement EXCEPT !.op = "UPDATE case_opinions",
                       !.id = id,
                       !.fired = TriggerFires("UPDATE", DOMAIN set)]
       IN IF OpinionNotNullColumn(new) # NULL
          THEN /\ last' = [stmt EXCEPT !.sqlstate = NOT_NULL_VIOLATION,
                              !.constraint = OpinionNotNullColumn(new)]
               /\ UNCHANGED case_opinions
          ELSE IF OpinionUniqueViolation(new)
          THEN /\ last' = [stmt EXCEPT !.sqlstate = UNIQUE_VIOLATION,
                              !.constraint = "case_opinions_source_id_key"]
               /\ UNCHANGED case_opinions
          ELSE /\ case_opinions' = (case_opinions \ {old}) \cup {new}
               /\ last' = [stmt EXCEPT !.rows = 1]
    /\ UNCHANGED <<case_opinions_id_seq, case_embeddings,
                   case_embeddings_id_seq, ever_ids>>

\* A foreign key without ON DELETE CASCADE enforcement: the rows stay.
EmbeddingsAfterDelete_nocascade(opinion_id) == case_embeddings

\* opinion_id ... REFERENCES case_opinions(id) ON DELETE CASCADE: what is
\* left of case_embeddings once the opinion is deleted.
EmbeddingsAfterDelete(opinion_id) ==
    {e \in case_embeddings : e.opinion_id # opinion_id}

\* DELETE FROM case_opinions WHERE id = <id>.
DeleteOpinion(id) ==
    /\ id \in OpinionIds
    /\ case_opinions' = case_opinions \ {OpinionById(id)}
    /\ case_embeddings' = EmbeddingsAfterDelete(id)
    /\ last' = [NoStatement EXCEPT !.op = "DELETE case_opinions", !.id = id,
                   !.rows = Cardinality(case_embeddings)
                            - Cardinality(EmbeddingsAfterDelete(id))]
    /\ UNCHANGED <<case_opinions_id_seq, case_embeddings_id_seq, ever_ids>>

--------------------------------------------------------------------------
(* Table case_embeddings.                                                  *)

\* embedding vector(1536): the dimension the column's type fixes.
EmbeddingDimension == 1536

\* The dimension of the vectors each embedding model produces.
ModelDimension(model) ==
    IF model = "text-embedding-3-large" THEN 2 * EmbeddingDimension
    ELSE EmbeddingDimension

\* The column accepts a vector only of its own dimension.
EmbeddingTypeOk(embedding) == embedding.dim = EmbeddingDimension

\* No UNIQUE constraint at all.
EmbeddingConflicts_none(row) == {}

\* UNIQUE(opinion_id, model, chunk_index): the stored rows the new row
\* conflicts with.
EmbeddingConflicts(row) ==
    {e \in case_embeddings :
        /\ e.opinion_id = row.opinion_id
        /\ e.model = row.model
        /\ e.chunk_index = row.chunk_index}

\* opinion_id INT NOT NULL REFERENCES case_opinions(id).
EmbeddingForeignKeyOk(row) == row.opinion_id \in OpinionIds

\* id SERIAL: DEFAULT nextval('case_embeddings_id_seq').
nextval_embeddings == case_embeddings_id_seq + 1

EmbeddingStatement(op, row) ==
    [NoStatement EXCEPT !.op = op, !.id = row.opinion_id,
        !.model = row.model, !.chunk_index = row.chunk_index,
        !.embedding = row.embedding.v]

\* INSERT INTO case_embeddings (opinion_id, model, chunk_index, embedding)
\* VALUES (...).
InsertEmbedding(opinion_id, model, chunk_index, embedding) ==
    /\ case_embeddings_id_seq < MaxEmbeddingId
    /\ LET row == [id |-> nextval_embeddings, opinion_id |-> opinion_id,
                   model |-> model, chunk_index |-> chunk_index,
                   embedding |-> embedding]
           stmt == EmbeddingStatement("INSERT case_embeddings", row)
       IN /\ case_embeddings_id_seq' = row.id
          /\ IF ~ EmbeddingTypeOk(embedding)
             THEN /\ last' = [stmt EXCEPT !.sqlstate = DATA_EXCEPTION,
                                 !.constraint = "embedding"]
                  /\ UNCHANGED case_embeddings
             ELSE IF EmbeddingConflicts(row) # {}
             THEN /\ last' = [stmt EXCEPT !.sqlstate = UNIQUE_VIOLATION,
                        !.constraint =
                            "case_embeddings_opinion_id_model_chunk_index_key"]
                  /\ UNCHANGED case_embeddings
             ELSE IF ~ EmbeddingForeignKeyOk(row)
             THEN /\ last' = [stmt EXCEPT !.sqlstate = FOREIGN_KEY_VIOLATION,
                        !.constraint = "case_embeddings_opinion_id_fkey"]
                  /\ UNCHANGED case_embeddings
             ELSE /\ case_embeddings' = case_embeddings \cup {row}
                  /\ last' = [stmt EXCEPT !.rows = 1]
    /\ UNCHANGED <<case_opinions, case_opinions_id_seq, ever_ids>>

\* The pipeline's write of one chunk: INSERT ... ON CONFLICT (opinion_id,
\* model, chunk_index) DO UPDATE SET embedding = EXCLUDED.embedding.
UpsertEmbedding(opinion_id, model, chunk_index, embedding) ==
    /\ case_embeddings_id_seq < MaxEmbeddingId
    /\ LET row == [id |-> nextval_embeddings, opinion_id |-> opinion_id,
                   model |-> model, chunk_index |-> chunk_index,
                   embedding |-> embedding]
           stmt == EmbeddingStatement("UPSERT case_embeddings", row)
       IN /\ case_embeddings_id_seq' = row.id
          /\ IF ~ EmbeddingTypeOk(embedding)
             THEN /\ last' = [stmt EXCEPT !.sqlstate = DATA_EXCEPTION,
                                 !.constraint = "embedding"]
                  /\ UNCHANGED case_embeddings
             ELSE IF EmbeddingConflicts(row) # {}
             THEN /\ case_embeddings' =
                        {IF e \in EmbeddingConflicts(row)
                         THEN [e EXCEPT !.embedding = embedding]
                         ELSE e : e \in case_embeddings}
                  /\ last' = [stmt EXCEPT !.rows = 1]
             ELSE IF ~ EmbeddingForeignKeyOk(row)
             THEN /\ last' = [stmt EXCEPT !.sqlstate = FOREIGN_KEY_VIOLATION,
                        !.constraint = "case_embeddings_opinion_id_fkey"]
                  /\ UNCHANGED case_embeddings
             ELSE /\ case_embeddings' = case_embeddings \cup {row}
                  /\ last' = [stmt EXCEPT !.rows = 1]
    /\ UNCHANGED <<case_opinions, case_opinions_id_seq, ever_ids>>

--------------------------------------------------------------------------
(* The empty database, and the widget after its first render and the       *)
(* effect that calls startSession.                                         *)
Init ==
    /\ case_opinions = {}
    /\ case_opinions_id_seq = 0
    /\ case_embeddings = {}
    /\ case_embeddings_id_seq = 0
    /\ ever_ids = {}
    /\ last = NoStatement
    /\ messages = <<>>
    /\ input = ""
    /\ isLoading = FALSE
    /\ sessionId = NULL
    /\ caseType = NULL
    /\ readyForReport = FALSE
    /\ report = FALSE
    /\ rendered = [input |-> "", isLoading |-> FALSE, sessionId |-> NULL]
    /\ startFetch = "pending"
    /\ messageFetches = 0
    /\ reportFetches = 0
    /\ lastSend = "none"

--------------------------------------------------------------------------
(* ChatWidget. A handler reads the state values of the render that created *)
(* it (its closure). State set inside an input event is rendered before    *)
(* the next event is handled, so the event's action ends with the render;  *)
(* state set in a promise continuation is rendered in a later step, and    *)
(* the render that ends an event may or may not include it. The disabled   *)
(* attributes of the input and the button only take events away: here      *)
(* every send event reaches sendMessage.                                   *)

\* String.prototype.trim on the texts typed here.
Trim(text) == IF text = " " THEN "" ELSE text

TypedTexts == {"", " ", "hi"}

\* What a render captures for the handlers it creates.
Closure == [input |-> input, isLoading |-> isLoading, sessionId |-> sessionId]

\* The renders that may end an input event that set the input box's text:
\* with the state that continuations have set since the last render, or
\* without it.
EventRenders(value) ==
    {[input |-> value, isLoading |-> isLoading, sessionId |-> sessionId],
     [input |-> value, isLoading |-> rendered.isLoading,
      sessionId |-> rendered.sessionId]}

\* sendMessage's guard without the isLoading test.
SendAllowed_noLoadingTest(text) ==
    text # "" /\ rendered.sessionId # NULL

\* if (!text || !sessionId || isLoading) return;
SendAllowed(text) ==
    text # "" /\ rendered.sessionId # NULL /\ ~ rendered.isLoading

\* addMessage(role, ...)
addMessage(role) == messages' = Append(messages, role)

\* startSession: the response arrived and parsed.
StartSessionResolved ==
    /\ startFetch = "pending"
    /\ startFetch' = "settled"
    /\ sessionId' = "session-1"
    /\ addMessage("assistant")
    /\ UNCHANGED <<input, isLoading, caseType, readyForReport, report,
                   rendered, messageFetches, reportFetches, lastSend>>

\* startSession: fetch or res.json() threw.
StartSessionFailed ==
    /\ startFetch = "pending"
    /\ startFetch' = "settled"
    /\ addMessage("assistant")
    /\ UNCHANGED <<input, isLoading, sessionId, caseType, readyForReport,
                   report, rendered, messageFetches, reportFetches, lastSend>>

\* React renders the state set by a promise continuation.
Render ==
    /\ rendered # Closure
    /\ rendered' = Closure
    /\ UNCHANGED <<messages, input, isLoading, sessionId, caseType,
                   readyForReport, report, startFetch, messageFetches,
                   reportFetches, lastSend>>

\* onChange={(e) => setInput(e.target.value)}
InputChanged(value) ==
    /\ input' = value
    /\ rendered' \in EventRenders(value)
    /\ UNCHANGED <<messages, isLoading, sessionId, caseType, readyForReport,
                   report, startFetch, messageFetches, reportFetches,
                   lastSend>>

\* sendMessage up to its first await, and the render that ends the event.
sendMessage ==
    LET text == Trim(rendered.input)
    IN IF ~ SendAllowed(text)
       THEN /\ lastSend' = "returned"
            /\ UNCHANGED <<messages, input, isLoading, sessionId, caseType,
                           readyForReport, report, rendered, startFetch,
                           messageFetches, reportFetches>>
       ELSE /\ Len(messages) < MaxMessages
            /\ addMessage("user")
            /\ input' = ""
            /\ isLoading' = TRUE
            /\ messageFetches' = messageFetches + 1
            /\ lastSend' = "issued"
            /\ rendered' = [input |-> "", isLoading |-> TRUE,
                            sessionId |-> sessionId]
            /\ UNCHANGED <<sessionId, caseType, readyForReport, report,
                           startFetch, reportFetches>>

\* handleKeyDown: Enter without Shift.
KeyDownEnter == sendMessage

\* The Send button's onClick.
SendClicked == sendMessage

\* sendMessage after its awaits: the response parsed to data.
MessageResolved(case_type, ready_for_report) ==
    /\ messageFetches > 0
    /\ messageFetches' = messageFetches - 1
    /\ addMessage("assistant")
    /\ caseType' = IF case_type # NULL THEN case_type ELSE caseType
    /\ IF ready_for_report
       THEN /\ readyForReport' = TRUE
            /\ reportFetches' = reportFetches + 1
       ELSE UNCHANGED <<readyForReport, reportFetches>>
    /\ isLoading' = FALSE
    /\ UNCHANGED <<input, sessionId, report, rendered, startFetch, lastSend>>

\* sendMessage after its awaits: fetch or res.json() threw.
MessageFailed ==
    /\ messageFetches > 0
    /\ messageFetches' = messageFetches - 1
    /\ addMessage("assistant")
    /\ isLoading' = FALSE
    /\ UNCHANGED <<input, sessionId, caseType, readyForReport, report,
                   rendered, startFetch, reportFetches, lastSend>>

\* fetchReport after its awaits.
ReportSettled(ok) ==
    /\ reportFetches > 0
    /\ reportFetches' = reportFetches - 1
    /\ report' = (report \/ ok)
    /\ UNCHANGED <<messages, input, isLoading, sessionId, caseType,
                   readyForReport, rendered, startFetch, messageFetches,
                   lastSend>>

MessageSettled ==
    \/ MessageFailed
    \/ \E case_type \in {NULL, "dwi"}, ready_for_report \in BOOLEAN :
          MessageResolved(case_type, ready_for_report)

NextChat ==
    \/ StartSessionResolved /\ UNCHANGED dbVars
    \/ StartSessionFailed /\ UNCHANGED dbVars
    \/ Render /\ UNCHANGED dbVars
    \/ \E value \in TypedTexts : InputChanged(value) /\ UNCHANGED dbVars
    \/ KeyDownEnter /\ UNCHANGED dbVars
    \/ SendClicked /\ UNCHANGED dbVars
    \/ MessageSettled /\ UNCHANGED dbVars
    \/ \E ok \in BOOLEAN : ReportSettled(ok) /\ UNCHANGED dbVars

\* A request that was sent settles, and React renders what was set.
SpecChat ==
    Init /\ [][NextChat]_vars /\ WF_chatVars(MessageSettled)
         /\ WF_chatVars(Render)

--------------------------------------------------------------------------
(* The opinion store under identity and constraint inputs.                 *)

Sources == {"courtlistener", "cap"}

IdentityValues ==
    [source : Sources \cup {NULL},
     source_id : {NULL, "1001", "1002"},
     case_name : {NULL, "State v. Smith"},
     court : {NULL, "texcrimapp"},
     summary : {NULL},
     opinion_text : {NULL},
     search_vector : {TsNull}]

\* The column lists of an UPDATE's SET clause.
SetLists(columns) ==
    {cols \in SUBSET columns : cols # {} /\ Cardinality(cols) <= MaxSetColumns}

\* The values a statement may give each column of case_opinions.
IdentityColumnValues(column) ==
    CASE column = "source" -> Sources \cup {NULL}
      [] column = "source_id" -> {NULL, "1001", "1002"}
      [] column = "case_name" -> {NULL, "State v. Smith"}
      [] column = "court" -> {NULL, "texcrimapp"}

\* SET lists over the identity columns.
IdentitySets ==
    UNION {{set \in [cols -> Sources \cup {NULL, "1001", "1002",
                                          "State v. Smith", "texcrimapp"}] :
               \A c \in cols : set[c] \in IdentityColumnValues(c)} :
              cols \in SetLists({"source", "source_id", "case_name", "court"})}

NextOpinions ==
    \/ \E values \in IdentityValues :
          InsertOpinion(values) /\ UNCHANGED chatVars
    \/ \E id \in OpinionIds : \E set \in IdentitySets :
          UpdateOpinion(id, set) /\ UNCHANGED chatVars
    \/ \E id \in OpinionIds : DeleteOpinion(id) /\ UNCHANGED chatVars

SpecOpinions == Init /\ [][NextOpinions]_vars

--------------------------------------------------------------------------
(* The opinion store under text inputs: the lexical index.                 *)

\* A search_vector a caller writes itself.
CallerVector == Ts({[lexeme |-> "dwi", pos |-> 1, weight |-> "A"]})

IndexTexts == {NULL, "", "the DWI tests"}

IndexValues ==
    [source : {"courtlistener"},
     source_id : {NULL},
     case_name : IndexTexts,
     court : {"texcrimapp"},
     summary : IndexTexts,
     opinion_text : IndexTexts,
     search_vector : {TsNull, CallerVector}]

\* SET lists over the three text columns.
IndexTextSets(most) ==
    UNION {[cols -> IndexTexts] :
              cols \in {c \in SUBSET TriggerColumns : Cardinality(c) <= most}}

\* SET lists over the text columns and search_vector itself.
IndexSets ==
    {set \in IndexTextSets(MaxSetColumns) : DOMAIN set # {}}
    \cup {("search_vector" :> CallerVector) @@ set :
              set \in IndexTextSets(MaxSetColumns - 1)}

NextIndex ==
    \/ \E values \in IndexValues :
          /\ Cardinality(case_opinions) < MaxIndexed
          /\ InsertOpinion(values)
          /\ UNCHANGED chatVars
    \/ \E id \in OpinionIds : \E set \in IndexSets :
          UpdateOpinion(id, set) /\ UNCHANGED chatVars
    \/ \E id \in OpinionIds : DeleteOpinion(id) /\ UNCHANGED chatVars

SpecIndex == Init /\ [][NextIndex]_vars

--------------------------------------------------------------------------
(* Lexical rank. The search query is not part of schema.sql; the rank is   *)
(* PostgreSQL's ts_rank for a one-term query with the default weights      *)
(* {D, C, B, A} = {0.1, 0.2, 0.4, 1.0}, in integers: weights times ten,    *)
(* the sum over occurrences times 3600 (so that w / j^2 is exact for up to *)
(* six occurrences), without the constant factor 1 / 1.64493406685.        *)

WeightValue(weight) ==
    CASE weight = "A" -> 10
      [] weight = "B" -> 4
      [] weight = "C" -> 2
      [] OTHER -> 1

\* The weights of a lexeme's occurrences, by position.
RECURSIVE OccurrenceWeights(_)
OccurrenceWeights(entries) ==
    IF entries = {} THEN <<>>
    ELSE LET first == CHOOSE e \in entries :
                          \A f \in entries : e.pos <= f.pos
         IN <<WeightValue(first.weight)>>
            \o OccurrenceWeights(entries \ {first})

RECURSIVE SumOverSquares(_, _)
SumOverSquares(w, j) ==
    IF j > Len(w) THEN 0
    ELSE (3600 * w[j]) \div (j * j) + SumOverSquares(w, j + 1)

ts_rank(vector, term) ==
    LET w == OccurrenceWeights({e \in vector.entries : e.lexeme = term})
    IN IF w = <<>> THEN 0
       ELSE LET jm == CHOOSE j \in DOMAIN w :
                          /\ \A k \in DOMAIN w : w[k] <= w[j]
                          /\ \A k \in 1..(j - 1) : w[k] < w[j]
            IN 3600 * w[jm] + SumOverSquares(w, 1)
               - (3600 * w[jm]) \div (jm * jm)

--------------------------------------------------------------------------
(* The opinion store with two opinions side by side, for ranking.          *)

RankTexts == {"", "the DWI tests"}

RankValues ==
    [source : {"courtlistener"},
     source_id : {NULL},
     case_name : RankTexts,
     court : {"texcrimapp"},
     summary : {NULL},
     opinion_text : RankTexts \cup {NULL},
     search_vector : {TsNull}]

RankSets ==
    [{"case_name"} -> RankTexts] \cup [{"opinion_text"} -> RankTexts]
    \cup [{"search_vector"} -> {CallerVector}]

NextRank ==
    \/ \E values \in RankValues :
          /\ Cardinality(case_opinions) < MaxRanked
          /\ InsertOpinion(values)
          /\ UNCHANGED chatVars
    \/ \E id \in OpinionIds : \E set \in RankSets :
          UpdateOpinion(id, set) /\ UNCHANGED chatVars
    \/ \E id \in OpinionIds : DeleteOpinion(id) /\ UNCHANGED chatVars

SpecRank == Init /\ [][NextRank]_vars

--------------------------------------------------------------------------
(* The embedding chunks of a few opinions.                                 *)

Models ==
    {"text-embedding-3-small", "text-embedding-ada-002",
     "text-embedding-3-large"}

\* The provider's vectors: the model's dimension, and one of two contents.
ModelVectors(model) == [dim : {ModelDimension(model)}, v : {1, 2}]

PlainOpinion ==
    [source |-> "courtlistener", source_id |-> NULL,
     case_name |-> "State v. Smith", court |-> "texcrimapp",
     summary |-> NULL, opinion_text |-> NULL, search_vector |-> TsNull]

NextEmbeddings ==
    \/ InsertOpinion(PlainOpinion) /\ UNCHANGED chatVars
    \/ \E id \in OpinionIds : DeleteOpinion(id) /\ UNCHANGED chatVars
    \/ \E opinion_id \in 1..MaxId, model \in Models,
          chunk_index \in 0..MaxChunkIndex :
          \E embedding \in ModelVectors(model) :
              /\ InsertEmbedding(opinion_id, model, chunk_index, embedding)
              /\ UNCHANGED chatVars
    \/ \E opinion_id \in 1..MaxId, model \in Models,
          chunk_index \in 0..MaxChunkIndex :
          \E embedding \in ModelVectors(model) :
              /\ UpsertEmbedding(opinion_id, model, chunk_index, embedding)
              /\ UNCHANGED chatVars

SpecEmbeddings == Init /\ [][NextEmbeddings]_vars

--------------------------------------------------------------------------
(* Claims on the opinion store.                                            *)

\* C1: an INSERT whose required columns are present and whose (source,
\* source_id) pair, source_id present, differs from the pair of every
\* stored opinion succeeds, and stored opinions have distinct ids. (After a
\* rejected INSERT the table is as before it; after an accepted one the new
\* row itself carries the pair.)
C1_DistinctPairsBothStored ==
    /\ \A o1, o2 \in case_opinions : o1.id = o2.id => o1 = o2
    /\ ( /\ last.op = "INSERT case_opinions"
         /\ last.source_id # NULL
         /\ last.sqlstate # NOT_NULL_VIOLATION
         /\ ~ \E o \in case_opinions :
                 o.source = last.source /\ o.source_id = last.source_id )
       => last.sqlstate = OK

\* C6 (state part): every stored opinion has a case name and a court.
C6_RequiredPresent ==
    \A o \in case_opinions : o.case_name # NULL /\ o.court # NULL

\* C6 (step part): a write rejected for a missing required column leaves
\* both tables as they were.
C6_RejectedLeavesStore ==
    last'.sqlstate = NOT_NULL_VIOLATION
        => UNCHANGED <<case_opinions, case_embeddings>>

\* C6: an opinion whose case name or court is missing is rejected on insert
\* and on update, the rejected write changes neither table, and so every
\* stored opinion has both.
C6_MissingRequiredRejected ==
    []C6_RequiredPresent /\ [][C6_RejectedLeavesStore]_vars

\* An UPDATE that set court to NULL on a stored opinion was rejected.
C6_Witness ==
    /\ last.op = "UPDATE case_opinions"
    /\ last.sqlstate = NOT_NULL_VIOLATION
    /\ last.constraint = "court"
    /\ last.id \in OpinionIds

\* C7 (one step): an id that appears in the table is one no opinion has
\* ever had; an UPDATE keeps the set of ids and an INSERT keeps the ids
\* that were there; no two rows share an id.
C7_Step ==
    /\ \A i \in OpinionIds' \ OpinionIds : i \notin ever_ids
    /\ OpinionIds \subseteq ever_ids
    /\ last'.op = "UPDATE case_opinions" => OpinionIds' = OpinionIds
    /\ last'.op = "INSERT case_opinions" => OpinionIds \subseteq OpinionIds'
    /\ Cardinality(OpinionIds') = Cardinality(case_opinions')

\* C7: over inserts, updates and deletes an existing opinion keeps its id
\* and a new opinion gets an id no opinion, stored or deleted, ever had.
C7_IdsStableNeverReused == [][C7_Step]_vars

\* An INSERT succeeded after an earlier opinion was deleted.
C7_Witness ==
    /\ last.op = "INSERT case_opinions"
    /\ last.sqlstate = OK
    /\ last.id \in OpinionIds
    /\ ever_ids \ OpinionIds # {}

--------------------------------------------------------------------------
(* Claims on the lexical index.                                            *)

\* C2: in every state each opinion's search_vector is the weighted
\* derivation from its current case_name, summary and opinion_text,
\* whatever columns the writes named, search_vector included.
C2_SearchVectorAlwaysDerived ==
    \A o \in case_opinions :
        o.search_vector = update_opinion_search_vector(o).search_vector

\* The lexemes a text column of the row contributes.
ColumnLexemes(o, column) ==
    {e.lexeme : e \in to_tsvector(COALESCE(o[column], "")).entries}

\* The term occurs in the given text column of the row and in no other.
TermOnlyIn(o, column, term) ==
    \A c \in TriggerColumns : term \in ColumnLexemes(o, c) <=> c = column

\* The stored search_vector is the one the trigger wrote for the row.
TriggerWritten(o) ==
    o.search_vector = update_opinion_search_vector(o).search_vector

QueryTerms == {"dwi", "test"}

\* C8: of two stored opinions with trigger-written vectors, one holding a
\* query term only in its case name and the other only in its opinion
\* text, the first has the strictly higher lexical rank.
C8_CaseNameOutranksOpinionText ==
    \A o1, o2 \in case_opinions : \A term \in QueryTerms :
        ( /\ TriggerWritten(o1) /\ TriggerWritten(o2)
          /\ TermOnlyIn(o1, "case_name", term)
          /\ TermOnlyIn(o2, "opinion_text", term) )
        => ts_rank(o1.search_vector, term) > ts_rank(o2.search_vector, term)

\* Two such opinions are stored together.
C8_Witness ==
    \E o1, o2 \in case_opinions :
        /\ TriggerWritten(o1) /\ TriggerWritten(o2)
        /\ TermOnlyIn(o1, "case_name", "dwi")
        /\ TermOnlyIn(o2, "opinion_text", "dwi")
        /\ ts_rank(o2.search_vector, "dwi") > 0

\* The tokens of one text column, weighted, at positions past the offset;
\* nothing when the column is absent.
WeightedTokens(text, weight, offset) ==
    IF text = NULL THEN {}
    ELSE LET w == TextWords(text)
         IN {[lexeme |-> Lexize(w[i]), pos |-> i + offset, weight |-> weight] :
                i \in {j \in DOMAIN w : w[j] \notin StopWords}}

LastPos(entries) ==
    IF entries = {} THEN 0
    ELSE CHOOSE p \in {e.pos : e \in entries} : \A e \in entries : e.pos <= p

\* The weighted tokens of the columns of the row that are present.
PresentTokens(o) ==
    LET a == WeightedTokens(o.case_name, "A", 0)
        b == WeightedTokens(o.summary, "B", LastPos(a))
        c == WeightedTokens(o.opinion_text, "C", LastPos(a \cup b))
    IN a \cup b \cup c

\* C9: a write that recomputes the vector fails only for a missing case
\* name, never for an absent or empty summary or opinion_text, and when it
\* succeeds the stored vector is present and holds exactly the weighted
\* tokens of the columns that are present.
C9_AbsentFieldsContributeNothing ==
    (last.op \in {"INSERT case_opinions", "UPDATE case_opinions"} /\ last.fired)
    => IF last.sqlstate = OK
       THEN /\ last.id \in OpinionIds
            /\ ~ OpinionById(last.id).search_vector.isnull
            /\ OpinionById(last.id).search_vector.entries
                   = PresentTokens(OpinionById(last.id))
       ELSE /\ last.sqlstate = NOT_NULL_VIOLATION
            /\ last.constraint = "case_name"

\* An UPDATE recomputed the vector of an opinion with an absent summary and
\* an empty opinion_text.
C9_Witness ==
    /\ last.op = "UPDATE case_opinions" /\ last.fired /\ last.sqlstate = OK
    /\ last.id \in OpinionIds
    /\ OpinionById(last.id).summary = NULL
    /\ OpinionById(last.id).opinion_text = ""
    /\ OpinionById(last.id).search_vector.entries # {}

--------------------------------------------------------------------------
(* Claims on the embedding chunks.                                         *)

\* C3: after any sequence of opinion inserts, chunk writes and opinion
\* deletes every stored chunk's opinion_id is the id of a stored opinion;
\* in particular the state right after a DELETE holds no chunk of the
\* deleted opinion, whatever its model and chunk index.
C3_NoOrphanChunk ==
    \A e \in case_embeddings : e.opinion_id \in OpinionIds

\* A DELETE took two or more chunks with it and left chunks of another
\* opinion in place.
C3_Witness ==
    /\ last.op = "DELETE case_opinions"
    /\ last.rows >= 2
    /\ case_embeddings # {}

\* C4: the table holds at most one chunk per (opinion_id, model,
\* chunk_index), and after a chunk write through the upsert the one chunk
\* of the written key holds the vector just written.
C4_OneChunkPerKeyLatestVector ==
    /\ \A e1, e2 \in case_embeddings :
          ( /\ e1.opinion_id = e2.opinion_id
            /\ e1.model = e2.model
            /\ e1.chunk_index = e2.chunk_index ) => e1 = e2
    /\ (last.op = "UPSERT case_embeddings" /\ last.sqlstate = OK)
       => \E e \in case_embeddings :
              /\ e.opinion_id = last.id
              /\ e.model = last.model
              /\ e.chunk_index = last.chunk_index
              /\ e.embedding.v = last.embedding

\* An upsert hit an existing key: the chunk keeps the id of an earlier
\* write and holds the vector of this one.
C4_Witness ==
    /\ last.op = "UPSERT case_embeddings" /\ last.sqlstate = OK
    /\ \E e \in case_embeddings :
          /\ e.opinion_id = last.id
          /\ e.model = last.model
          /\ e.chunk_index = last.chunk_index
          /\ e.embedding.v = last.embedding
          /\ e.id < case_embeddings_id_seq

\* C5: storing a chunk of a model, with a vector of that model's own
\* dimension, for a stored opinion that already has the chunk of the same
\* index under another model, succeeds.
C5_ModelsCoexist ==
    ( /\ last.op = "UPSERT case_embeddings"
      /\ \E e \in case_embeddings :
            /\ e.opinion_id = last.id
            /\ e.chunk_index = last.chunk_index
            /\ e.model # last.model )
    => last.sqlstate = OK

--------------------------------------------------------------------------
(* Claims on the chat widget.                                              *)

\* The messages alternate, assistant first.
MessagesAlternate ==
    \A i \in DOMAIN messages :
        messages[i] = IF i % 2 = 1 THEN "assistant" ELSE "user"

\* C10 (state part): at most one /message request is outstanding; none is
\* while sessionId is null, and then no user message was ever sent; while
\* one is outstanding isLoading is true and the user's message is the
\* last; once it has settled isLoading is false and exactly one assistant
\* message follows each user message.
C10_OneRequestAtATime ==
    /\ messageFetches \in {0, 1}
    /\ sessionId = NULL =>
          (messageFetches = 0 /\ \A i \in DOMAIN messages : messages[i] # "user")
    /\ MessagesAlternate
    /\ messageFetches = 1 =>
          (isLoading /\ messages # <<>> /\ messages[Len(messages)] = "user")
    /\ messageFetches = 0 =>
          (~ isLoading /\ (messages # <<>> => messages[Len(messages)] = "assistant"))

\* C10 (step part): a step that issues a /message request starts with
\* isLoading false, a session id and a non-empty trimmed input.
C10_RequestOnlyWhenAllowed ==
    messageFetches' > messageFetches
        => (~ isLoading /\ sessionId # NULL /\ Trim(input) # "")

\* C10: under every interleaving of send events and response callbacks at
\* most one /message request is outstanding, sendMessage issues none while
\* isLoading is true, sessionId is null or the trimmed input is empty, and
\* every issued request is eventually followed by isLoading false with
\* exactly one assistant message after the user's message.
C10_SendIsSerialized ==
    /\ []C10_OneRequestAtATime
    /\ [][C10_RequestOnlyWhenAllowed]_vars
    /\ (messageFetches = 1) ~>
          (messageFetches = 0 /\ ~ isLoading /\ messages # <<>>
           /\ messages[Len(messages)] = "assistant")

\* A send event arrived with text typed and a session open while a request
\* was outstanding, and sendMessage returned without issuing another.
C10_Witness ==
    /\ lastSend = "returned"
    /\ messageFetches = 1
    /\ isLoading
    /\ sessionId # NULL
    /\ Trim(input) # ""
    /\ Len(messages) >= 4

====
